---- MODULE Spec2Model ----
(***************************************************************************)
(* Model of .github/kaizen-sweep/select-repos.py: the hour-of-week repo    *)
(* selector (is_active_time, select_repos) and its command line (main).    *)
(*                                                                         *)
(* Python dicts are functions with a set of string keys as domain; a key   *)
(* that is absent is a key outside the domain.  Python lists are           *)
(* sequences.  Objects that the code copies or updates in place (the repo  *)
(* records) live in a heap, a sequence of dicts addressed by position, so  *)
(* that aliasing and mutation are visible.                                 *)
(***************************************************************************)
EXTENDS Integers, Sequences, FiniteSets, TLC

VARIABLES
    file,         \* parsed content of the configuration document
    fileExists,   \* config_path.exists()
    args,         \* parsed command line: json, debug, and hour when given
    clock,        \* current UTC time: [weekday, hour]
    pc,           \* "idle": a run is due for this clock hour; "exited": it ran
    exit_status,  \* exit status of the last run
    stdout,       \* lines the last run printed on the primary output
    stderr,       \* lines the last run printed on the diagnostic stream
    mem,          \* memory of the last run when it ended: config, heap, result
    selectCalls,  \* number of calls of select_repos in the last run
    counts,       \* per position in active_repos: selections so far this week
    activeSeen    \* number of runs so far this week that passed the window check

vars == <<file, fileExists, args, clock, pc, exit_status, stdout, stderr, mem,
          selectCalls, counts, activeSeen>>

----------------------------------------------------------------------------
(* Bounds of the model *)

MaxListLen == 2      \* longest generated active_hours list
MaxPerHour == 2      \* largest repos_per_hour
MaxRepos == 3        \* most repos, configs with a configured window
MaxReposOpen == 5    \* most repos, configs without a window

(* Program constants *)

HoursPerDay == 24
DaysPerWeek == 7
MaxHourOfWeek == 167

----------------------------------------------------------------------------
(* Generic helpers for dicts and lists *)

EmptyDict == [k \in {} |-> 0]

Get(d, k, default) == IF k \in DOMAIN d THEN d[k] ELSE default

Range(s) == {s[i] : i \in 1..Len(s)}

\* list.index(x): zero-based position of the first occurrence
ListIndex(s, x) == (CHOOSE i \in 1..Len(s) : s[i] = x /\ \A j \in 1..(i-1) : s[j] # x) - 1

\* list(range(n))
ListRange(n) == [i \in 1..n |-> i - 1]

\* as DictMerge, with the fields already present kept (the base wins)
DictMergeBaseWins(d, o) == [k \in (DOMAIN d) \cup (DOMAIN o) |-> IF k \in DOMAIN d THEN d[k] ELSE o[k]]

\* d.update(o) seen as a value: shallow, o wins
DictMerge(d, o) == [k \in (DOMAIN d) \cup (DOMAIN o) |-> IF k \in DOMAIN o THEN o[k] ELSE d[k]]

----------------------------------------------------------------------------
(* The program *)

\* as get_hour_of_week, with days numbered 1 = Monday .. 7 = Sunday
get_hour_of_week_iso(dt) == ((dt.weekday + 1) * HoursPerDay) + dt.hour

\* get_hour_of_week(dt): weekday() is 0 = Monday .. 6 = Sunday
get_hour_of_week(dt) == (dt.weekday * HoursPerDay) + dt.hour

\* load_config: the parsed document becomes objects in memory; each repo
\* record is an object of its own, and active_repos lists their addresses
load_config(doc) ==
    LET repos == Get(doc, "active_repos", <<>>)
    IN  [config |-> IF "active_repos" \in DOMAIN doc
                    THEN [doc EXCEPT !["active_repos"] = [i \in 1..Len(repos) |-> i]]
                    ELSE doc,
         heap   |-> repos]

\* as is_active_time, with an empty list taken for no restriction
is_active_time_truthy(hour_of_week, settings) ==
    LET day_index   == hour_of_week \div HoursPerDay
        hour_of_day == hour_of_week % HoursPerDay
    IN  IF Get(settings, "active_days", <<>>) # <<>> /\ day_index \notin Range(settings.active_days)
        THEN FALSE
        ELSE IF Get(settings, "active_hours", <<>>) # <<>> /\ hour_of_day \notin Range(settings.active_hours)
        THEN FALSE
        ELSE TRUE

\* as is_active_time, without the check of the day
is_active_time_hours_only(hour_of_week, settings) ==
    LET hour_of_day == hour_of_week % HoursPerDay
    IN  IF "active_hours" \in DOMAIN settings /\ hour_of_day \notin Range(settings.active_hours)
        THEN FALSE
        ELSE TRUE

is_active_time(hour_of_week, settings) ==
    LET day_index   == hour_of_week \div HoursPerDay
        hour_of_day == hour_of_week % HoursPerDay
    IN  IF "active_days" \in DOMAIN settings /\ day_index \notin Range(settings.active_days)
        THEN FALSE
        ELSE IF "active_hours" \in DOMAIN settings /\ hour_of_day \notin Range(settings.active_hours)
        THEN FALSE
        ELSE TRUE

\* x or list(range(n)) for an optional list setting: absent and empty are falsy
ListOrRange(settings, key, n) ==
    IF key \in DOMAIN settings /\ settings[key] # <<>> THEN settings[key] ELSE ListRange(n)

\* as DictCopy, handing back the object itself instead of a copy
DictCopyAlias(heap, addr) == [heap |-> heap, ref |-> addr]

\* dict.copy(): a new object with the same fields
DictCopy(heap, addr) == [heap |-> Append(heap, heap[addr]), ref |-> Len(heap) + 1]

\* repo.update(other): changes the object at ref in place
DictUpdate(heap, ref, other) == [heap EXCEPT ![ref] = DictMerge(@, other)]

\* as RepoIndex, without the offset of the pass
RepoIndexNoOffset(start_index, i, total_repos) == start_index % total_repos

\* repo_index = (start_index + i) % total_repos
RepoIndex(start_index, i, total_repos) == (start_index + i) % total_repos

\* one pass of the loop body for index i: copy, override, append
LoopBody(st, i, start_index, active_repos, overrides) ==
    LET total_repos == Len(active_repos)
        repo_index  == RepoIndex(start_index, i, total_repos)
        cp          == DictCopy(st.heap, active_repos[repo_index + 1])
        repo        == cp.heap[cp.ref]
        heap2       == IF "name" \in DOMAIN repo /\ repo.name \in DOMAIN overrides
                       THEN DictUpdate(cp.heap, cp.ref, overrides[repo.name])
                       ELSE cp.heap
    IN  [heap         |-> heap2,
         selected     |-> Append(st.selected, cp.ref),
         repo_indices |-> Append(st.repo_indices, repo_index)]

\* for i in range(repos_per_hour)
RECURSIVE SelectLoop(_, _, _, _, _, _)
SelectLoop(st, i, repos_per_hour, start_index, active_repos, overrides) ==
    IF i >= repos_per_hour
    THEN st
    ELSE SelectLoop(LoopBody(st, i, start_index, active_repos, overrides),
                    i + 1, repos_per_hour, start_index, active_repos, overrides)

\* as ReposPerHour, with the configured value ignored
ReposPerHourDefault(settings) == 1

\* settings.get("repos_per_hour", 1)
ReposPerHour(settings) == Get(settings, "repos_per_hour", 1)

\* as ActiveHourIndex, counting a full day of hours per active day
ActiveHourIndexFullDay(day_position, hour_position, active_hours) ==
    (day_position * HoursPerDay) + hour_position

\* active_hour_index = (day_position * len(active_hours)) + hour_position
ActiveHourIndex(day_position, hour_position, active_hours) ==
    (day_position * Len(active_hours)) + hour_position

\* as StartIndex, moving on by one repo per active hour
StartIndexNoStride(active_hour_index, repos_per_hour, total_repos) ==
    active_hour_index % total_repos

\* start_index = (active_hour_index * repos_per_hour) % total_repos
StartIndex(active_hour_index, repos_per_hour, total_repos) ==
    (active_hour_index * repos_per_hour) % total_repos

\* select_repos(config, hour_of_week), run on memory heap.  The result holds
\* the returned list (addresses), the heap afterwards and the locals.
select_repos(config, heap, hour_of_week) ==
    LET settings     == Get(config, "settings", EmptyDict)
        active_repos == Get(config, "active_repos", <<>>)
        overrides    == Get(config, "overrides", EmptyDict)
        empty        == [selected |-> <<>>, heap |-> heap, repo_indices |-> <<>>,
                         passed |-> FALSE, day_index |-> 0, hour_of_day |-> 0,
                         active_days |-> <<>>, active_hours |-> <<>>,
                         active_hour_index |-> 0, start_index |-> 0]
    IN  IF active_repos = <<>> THEN empty
        ELSE IF ~is_active_time(hour_of_week, settings) THEN empty
        ELSE
        LET repos_per_hour == ReposPerHour(settings)
            total_repos    == Len(active_repos)
            active_hours   == ListOrRange(settings, "active_hours", HoursPerDay)
            active_days    == ListOrRange(settings, "active_days", DaysPerWeek)
            day_index      == hour_of_week \div HoursPerDay
            hour_of_day    == hour_of_week % HoursPerDay
            day_position   == IF day_index \in Range(active_days)
                              THEN ListIndex(active_days, day_index) ELSE 0
            hour_position  == IF hour_of_day \in Range(active_hours)
                              THEN ListIndex(active_hours, hour_of_day) ELSE 0
            active_hour_index == ActiveHourIndex(day_position, hour_position, active_hours)
            start_index    == StartIndex(active_hour_index, repos_per_hour, total_repos)
            done           == SelectLoop([heap |-> heap, selected |-> <<>>, repo_indices |-> <<>>],
                                         0, repos_per_hour, start_index, active_repos, overrides)
        IN  [selected |-> done.selected, heap |-> done.heap,
             repo_indices |-> done.repo_indices,
             passed |-> TRUE, day_index |-> day_index, hour_of_day |-> hour_of_day,
             active_days |-> active_days, active_hours |-> active_hours,
             active_hour_index |-> active_hour_index, start_index |-> start_index]

\* as HourOutOfRange, with hour 0 rejected as well
HourOutOfRangeFromOne(hour_of_week) == hour_of_week <= 0 \/ hour_of_week > MaxHourOfWeek

\* the hour-of-week range check of main
HourOutOfRange(hour_of_week) == hour_of_week < 0 \/ hour_of_week > MaxHourOfWeek

DayNames == <<"Mon", "Tue", "Wed", "Thu", "Fri", "Sat", "Sun">>

Line(text, values) == [text |-> text, values |-> values]

NoMem == [config |-> EmptyDict, heap |-> <<>>, loaded |-> FALSE, result |-> select_repos(EmptyDict, <<>>, 0)]

\* main(): the outcome of one run of the command line
main(a, exists, doc, now) ==
    IF ~exists
    THEN [exit_status |-> 1, stdout |-> <<>>,
          stderr |-> <<Line("Error: Config file not found", <<>>)>>,
          mem |-> NoMem, selectCalls |-> 0]
    ELSE
    LET ld           == load_config(doc)
        hour_of_week == IF "hour" \in DOMAIN a THEN a.hour ELSE get_hour_of_week(now)
    IN  IF HourOutOfRange(hour_of_week)
        THEN [exit_status |-> 1, stdout |-> <<>>,
              stderr |-> <<Line("Error: Hour of week must be between 0 and 167", <<hour_of_week>>)>>,
              mem |-> [NoMem EXCEPT !.config = ld.config, !.heap = ld.heap, !.loaded = TRUE],
              selectCalls |-> 0]
        ELSE
        LET res   == select_repos(ld.config, ld.heap, hour_of_week)
            recs  == [i \in 1..Len(res.selected) |-> res.heap[res.selected[i]]]
            dbg1  == IF a.debug
                     THEN <<Line("Hour of week", <<hour_of_week,
                                  DayNames[(hour_of_week \div HoursPerDay) + 1],
                                  hour_of_week % HoursPerDay>>)>>
                     ELSE <<>>
            dbg2  == IF a.debug THEN <<Line("Selected repos", <<Len(recs)>>)>> ELSE <<>>
            out   == IF a.json
                     THEN Line("json", recs)
                     ELSE Line("names", [i \in 1..Len(recs) |-> recs[i].name])
        IN  [exit_status |-> 0, stdout |-> <<out>>, stderr |-> dbg1 \o dbg2,
             mem |-> [config |-> ld.config, heap |-> res.heap, loaded |-> TRUE, result |-> res],
             selectCalls |-> 1]

----------------------------------------------------------------------------
(* Inputs: the configuration documents and command lines the runs are given *)

SeqsUpTo(S, n) == UNION {[1..k -> S] : k \in 0..n}

HourValues == {9, 17}

\* configured active_days lists: none, Mon/Wed/Fri, out of order, with a repeat
DayLists == {<<>>, <<0, 2, 4>>, <<2, 0>>, <<0, 0, 2>>}

AllNames == <<"alpha", "beta", "gamma", "delta", "epsilon", "zeta", "eta", "theta">>

\* the optional keys of settings, each absent or present
HoursOptions == {EmptyDict} \cup {[active_hours |-> s] : s \in SeqsUpTo(HourValues, MaxListLen)}
DaysOptions  == {EmptyDict} \cup {[active_days |-> s] : s \in DayLists}
PerHourOptions == {[repos_per_hour |-> n] : n \in 1..MaxPerHour}

PlainRepos(n) == [i \in 1..n |-> [name |-> AllNames[i], branch |-> "main"]]

\* documents with a configured window, plain repos, no overrides
WindowDocs ==
    {[settings |-> h @@ d @@ r, active_repos |-> PlainRepos(n)] :
        h \in HoursOptions, d \in DaysOptions, r \in PerHourOptions, n \in 0..MaxRepos}

\* documents without a window, more repos
OpenDocs ==
    {[settings |-> r, active_repos |-> PlainRepos(n)] :
        r \in PerHourOptions, n \in 1..MaxReposOpen}

RepoRecords == {[name |-> "alpha", branch |-> "main"],
                [name |-> "beta", branch |-> "main", team |-> "core"],
                [name |-> "alpha"]}

OverrideFields == {[branch |-> "dev"], [branch |-> "dev", depth |-> "full"], [name |-> "renamed"]}

OverrideMaps ==
    {a @@ b : a \in {EmptyDict} \cup {[alpha |-> f] : f \in OverrideFields},
              b \in {EmptyDict, [beta |-> [branch |-> "dev"]]}}

\* documents without a window, with overrides; repos_per_hour may be absent
OverrideDocs ==
    {[settings |-> r, active_repos |-> rs] @@ o :
        r \in {EmptyDict} \cup PerHourOptions,
        rs \in SeqsUpTo(RepoRecords, 2) \ {<<>>},
        o \in {EmptyDict} \cup {[overrides |-> m] : m \in OverrideMaps}}

\* documents for the command-line cases
CliDocs ==
    {[settings |-> EmptyDict, active_repos |-> PlainRepos(0)],
     [settings |-> [active_days |-> <<0, 2, 4>>, active_hours |-> <<9>>], active_repos |-> PlainRepos(2)],
     [settings |-> [repos_per_hour |-> 2], active_repos |-> PlainRepos(2),
      overrides |-> [alpha |-> [branch |-> "dev"]]]}

HourArgs == {-1, 33, 168, 200}

DefaultArgs == [json |-> FALSE, debug |-> FALSE]

CliArgs ==
    {[json |-> j, debug |-> g] @@ h :
        j \in BOOLEAN, g \in BOOLEAN, h \in {EmptyDict} \cup {[hour |-> x] : x \in HourArgs}}

----------------------------------------------------------------------------
(* The runs: one run of main per clock hour of one week *)

MondayMidnight == [weekday |-> 0, hour |-> 0]

WeekEnd(now) == now.weekday = DaysPerWeek - 1 /\ now.hour = HoursPerDay - 1

NumRepos == Len(Get(file, "active_repos", <<>>))

Init ==
    /\ \/ file \in WindowDocs \cup OpenDocs \cup OverrideDocs /\ fileExists = TRUE /\ args = DefaultArgs
       \/ file \in CliDocs /\ fileExists \in BOOLEAN /\ args \in CliArgs
    /\ clock = MondayMidnight
    /\ pc = "idle"
    /\ exit_status = 0
    /\ stdout = <<>>
    /\ stderr = <<>>
    /\ mem = NoMem
    /\ selectCalls = 0
    /\ counts = [i \in 1..NumRepos |-> 0]
    /\ activeSeen = 0

\* the number of occurrences of x in list s
Occurrences(s, x) == Cardinality({i \in 1..Len(s) : s[i] = x})

\* one run of the command line at the current clock hour
Main ==
    /\ pc = "idle"
    /\ LET r == main(args, fileExists, file, clock)
       IN  /\ exit_status' = r.exit_status
           /\ stdout' = r.stdout
           /\ stderr' = r.stderr
           /\ mem' = r.mem
           /\ selectCalls' = r.selectCalls
           /\ counts' = [i \in 1..NumRepos |-> counts[i] + Occurrences(r.mem.result.repo_indices, i - 1)]
           /\ activeSeen' = IF r.mem.result.passed THEN activeSeen + 1 ELSE activeSeen
    /\ pc' = "exited"
    /\ UNCHANGED <<file, fileExists, args, clock>>

\* the clock reaches the next hour and the next run is due, as a new process
Tick ==
    /\ pc = "exited"
    /\ ~WeekEnd(clock)
    /\ clock' = IF clock.hour = HoursPerDay - 1
                THEN [weekday |-> clock.weekday + 1, hour |-> 0]
                ELSE [clock EXCEPT !.hour = @ + 1]
    /\ pc' = "idle"
    /\ exit_status' = 0
    /\ stdout' = <<>>
    /\ stderr' = <<>>
    /\ mem' = NoMem
    /\ selectCalls' = 0
    /\ UNCHANGED <<file, fileExists, args, counts, activeSeen>>

Next == Main \/ Tick

Spec == Init /\ [][Next]_vars

----------------------------------------------------------------------------
(* Vocabulary of the properties, stated on the inputs and the outcome *)

Settings == Get(file, "settings", EmptyDict)
Overrides == Get(file, "overrides", EmptyDict)
BaseRepos == Get(file, "active_repos", <<>>)
PerHour == IF "repos_per_hour" \in DOMAIN Settings THEN Settings.repos_per_hour ELSE 1
HourOfWeek == IF "hour" \in DOMAIN args THEN args.hour ELSE (24 * clock.weekday) + clock.hour

Ran == pc = "exited"
Called == Ran /\ selectCalls = 1
Res == mem.result
Returned == [i \in 1..Len(Res.selected) |-> mem.heap[Res.selected[i]]]

\* the run follows the clock through the week, hour after hour
Sweep == fileExists /\ "hour" \notin DOMAIN args
WeekDone == Ran /\ WeekEnd(clock)

DaysOpen == "active_days" \notin DOMAIN Settings
HoursOpen == "active_hours" \notin DOMAIN Settings
InWindow(h) ==
    /\ DaysOpen \/ \E i \in 1..Len(Settings.active_days) : Settings.active_days[i] = h \div 24
    /\ HoursOpen \/ \E i \in 1..Len(Settings.active_hours) : Settings.active_hours[i] = h % 24

Min(a, b) == IF a <= b THEN a ELSE b

StrictlyIncreasing(s) == \A i \in 1..Len(s), j \in 1..Len(s) : i < j => s[i] < s[j]
NoRepeats(s) == \A i \in 1..Len(s), j \in 1..Len(s) : i # j => s[i] # s[j]
ConfiguredLists == {Settings[k] : k \in {"active_hours", "active_days"} \cap DOMAIN Settings}

Balanced == \A i \in 1..NumRepos, j \in 1..NumRepos : counts[i] - counts[j] <= 1

\* the record the claim expects for base record b
Overridden(b) ==
    IF b.name \in DOMAIN Overrides
    THEN [f \in (DOMAIN b) \cup (DOMAIN Overrides[b.name]) |->
            IF f \in DOMAIN Overrides[b.name] THEN Overrides[b.name][f] ELSE b[f]]
    ELSE b

----------------------------------------------------------------------------
(* C1 *)

\* C1 as stated: the result has min(repos_per_hour, total_repos) records when
\* the hour is active and active_repos is non-empty, and none otherwise.
C1_LengthIsMin ==
    Called =>
        Len(Returned) = IF NumRepos > 0 /\ is_active_time(HourOfWeek, Settings)
                        THEN Min(PerHour, NumRepos) ELSE 0

\* C1 amended: the result has exactly repos_per_hour records when the hour is
\* active and active_repos is non-empty (also when repos_per_hour exceeds the
\* number of repos), and none otherwise.
C1_LengthIsPerHour ==
    Called =>
        Len(Returned) = IF NumRepos > 0 /\ is_active_time(HourOfWeek, Settings)
                        THEN PerHour ELSE 0

C1_Witness ==
    Called /\ NumRepos = 1 /\ PerHour = 2 /\ Res.passed /\ Len(Returned) = 2

(* C2 *)

\* C2: in an active hour with repos, the result is repos_per_hour records in
\* order, the i-th built from active_repos[(start_index + i) mod total_repos]
\* with start_index = (active_hour_index * repos_per_hour) mod total_repos;
\* 2 per hour, 3 repos, active_hour_index 2 gives indices [1, 2].
C2_RotatingSlice ==
    (Called /\ NumRepos > 0 /\ is_active_time(HourOfWeek, Settings)) =>
        LET start == (Res.active_hour_index * PerHour) % NumRepos
        IN  /\ Len(Returned) = PerHour
            /\ \A i \in 0..(PerHour - 1) :
                  Returned[i + 1] = Overridden(BaseRepos[((start + i) % NumRepos) + 1])
            /\ (PerHour = 2 /\ NumRepos = 3 /\ Res.active_hour_index = 2)
                  => Res.repo_indices = <<1, 2>>

C2_Witness ==
    /\ Called /\ PerHour = 2 /\ NumRepos = 3 /\ Res.passed /\ Res.active_hour_index = 2
    /\ Returned = <<BaseRepos[2], BaseRepos[3]>>

(* C3 *)

\* C3: with repos_per_hour = 1, N >= 1 repos and no window, the runs for
\* hours 0..167 in order select the repos in list order, round and round
\* (no repo a second time before all N were selected), and at the end of the
\* week each repo was selected floor(168/N) or ceil(168/N) times.
C3_FullCycle ==
    (Sweep /\ DaysOpen /\ HoursOpen /\ PerHour = 1 /\ NumRepos >= 1) =>
        /\ Ran => /\ Res.repo_indices = <<HourOfWeek % NumRepos>>
                  /\ Returned = <<Overridden(BaseRepos[(HourOfWeek % NumRepos) + 1])>>
        /\ Balanced
        /\ \A i \in 1..NumRepos, j \in 1..NumRepos : i < j => counts[i] >= counts[j]
        /\ WeekDone => \A i \in 1..NumRepos :
                          counts[i] \in {168 \div NumRepos, (168 + NumRepos - 1) \div NumRepos}

C3_Witness ==
    /\ Sweep /\ DaysOpen /\ HoursOpen /\ PerHour = 1 /\ NumRepos = 5 /\ WeekDone
    /\ counts[1] = 34 /\ counts[5] = 33

(* C4 *)

\* C4: a returned record built from base record b has every field of b's
\* override at the override's value and every other field of b at b's value;
\* without an override for b's name it equals b.
C4_OverrideMerge ==
    Called =>
        \A i \in 1..Len(Returned) :
            LET b == BaseRepos[Res.repo_indices[i] + 1]
                r == Returned[i]
            IN  IF b.name \in DOMAIN Overrides
                THEN LET o == Overrides[b.name]
                     IN  /\ \A f \in DOMAIN o : f \in DOMAIN r /\ r[f] = o[f]
                         /\ \A f \in (DOMAIN b) \ (DOMAIN o) : f \in DOMAIN r /\ r[f] = b[f]
                ELSE r = b

C4_Witness ==
    /\ Called /\ Len(Returned) >= 1
    /\ Overrides = [alpha |-> [branch |-> "dev"]]
    /\ BaseRepos[Res.repo_indices[1] + 1] = [name |-> "alpha", branch |-> "main"]
    /\ Returned[1] = [name |-> "alpha", branch |-> "dev"]

(* C5 *)

\* C5: select_repos leaves its input as it was: after the call the config in
\* memory (the active_repos list, each of its records, the overrides, the
\* settings) equals the config as loaded, also when an override was merged
\* and when one base repo is returned more than once.
C5_InputUnchanged ==
    Called =>
        /\ mem.config = load_config(file).config
        /\ Len(mem.heap) >= NumRepos
        /\ \A a \in 1..NumRepos : mem.heap[mem.config.active_repos[a]] = BaseRepos[a]

C5_Witness ==
    /\ Called /\ NumRepos = 1 /\ Len(Returned) = 2
    /\ Res.repo_indices = <<0, 0>>
    /\ BaseRepos[1].name \in DOMAIN Overrides
    /\ Returned[1] # BaseRepos[1]
    /\ mem.heap[1] = BaseRepos[1]

(* C6 *)

\* C6: is_active_time is true exactly when (active_days is absent or holds
\* hour // 24) and (active_hours is absent or holds hour % 24); with both
\* absent every hour is active; with active_days [0,2,4], active_hours [9],
\* hour 33 is inactive and select_repos returns nothing.
C6_ActiveWindow ==
    (HourOfWeek \in 0..167) =>
        /\ is_active_time(HourOfWeek, Settings) = InWindow(HourOfWeek)
        /\ (DaysOpen /\ HoursOpen) => is_active_time(HourOfWeek, Settings)
        /\ (Called /\ NumRepos > 0) => (Res.passed = InWindow(HourOfWeek))
        /\ ( /\ Called /\ HourOfWeek = 33 /\ ~DaysOpen /\ ~HoursOpen
             /\ Settings.active_days = <<0, 2, 4>> /\ Settings.active_hours = <<9>> )
           => (~is_active_time(33, Settings) /\ Returned = <<>>)

C6_Witness ==
    /\ Called /\ HourOfWeek = 33 /\ NumRepos > 0 /\ ~DaysOpen /\ ~HoursOpen
    /\ Settings.active_days = <<0, 2, 4>> /\ Settings.active_hours = <<9>>
    /\ Returned = <<>>

(* C7 *)

\* C7: with the configuration file missing or the hour-of-week outside
\* [0,167], main reports an error on the diagnostic stream and ends with
\* status 1, without calling select_repos and with nothing on the primary
\* output; a valid run with an empty selection ends with status 0 and empty
\* output.
C7_ValidateFirst ==
    Ran =>
        /\ (~fileExists \/ HourOfWeek < 0 \/ HourOfWeek > 167) =>
              /\ exit_status = 1
              /\ Len(stderr) = 1
              /\ stderr[1].text \in {"Error: Config file not found",
                                     "Error: Hour of week must be between 0 and 167"}
              /\ selectCalls = 0
              /\ stdout = <<>>
        /\ (fileExists /\ HourOfWeek \in 0..167) => (exit_status = 0 /\ selectCalls = 1)
        /\ (fileExists /\ HourOfWeek \in 0..167 /\ (NumRepos = 0 \/ ~InWindow(HourOfWeek))) =>
              /\ Len(stdout) = 1
              /\ stdout[1].values = <<>>

C7_Witness ==
    Ran /\ fileExists /\ HourOfWeek = 200 /\ exit_status = 1 /\ selectCalls = 0 /\ stdout = <<>>

(* C8 *)

\* C8 as stated: for any configured lists, the active hours of the week taken
\* in increasing order get active_hour_index 0, 1, 2, ..., so the start_index
\* moves on by repos_per_hour (mod total_repos) per active hour.  activeSeen
\* counts the active hours up to and including this one; a start_index that
\* begins at 0 and moves on by repos_per_hour each active hour is
\* ((activeSeen - 1) * repos_per_hour) mod total_repos.
C8_DenseIndex ==
    (Sweep /\ Called /\ Res.passed) =>
        /\ Res.active_hour_index = activeSeen - 1
        /\ Res.start_index = ((activeSeen - 1) * PerHour) % NumRepos

\* C8 amended: the same, for configured lists that are strictly increasing.
C8_DenseIndexSorted ==
    (\A s \in ConfiguredLists : StrictlyIncreasing(s)) => C8_DenseIndex

C8_Witness ==
    /\ Sweep /\ Called /\ Res.passed /\ ~DaysOpen /\ ~HoursOpen
    /\ Settings.active_days = <<0, 2, 4>> /\ Settings.active_hours = <<9, 17>>
    /\ clock.weekday = 2 /\ clock.hour = 17
    /\ Res.active_hour_index = 3

(* C9 *)

\* C9 as stated: for any config, at the end of the week the numbers of times
\* any two repos were selected differ by at most 1.
C9_EqualShare ==
    (Sweep /\ WeekDone /\ NumRepos >= 1) => Balanced

\* C9 amended: the same, for configured lists without repeated entries.
C9_EqualShareNoRepeats ==
    (\A s \in ConfiguredLists : NoRepeats(s)) => C9_EqualShare

C9_Witness ==
    /\ Sweep /\ WeekDone /\ NumRepos = 3 /\ PerHour = 2 /\ DaysOpen /\ ~HoursOpen
    /\ Settings.active_hours = <<17, 9>>
    /\ counts = <<10, 9, 9>>

(* C10 *)

\* C10: past the window check, day_index is in the active_days list and
\* hour_of_day in the active_hours list used for the lookups, so the
\* fallback to position 0 is never taken.
C10_NoFallback ==
    (Called /\ Res.passed) =>
        /\ \E i \in 1..Len(Res.active_days) : Res.active_days[i] = HourOfWeek \div 24
        /\ \E i \in 1..Len(Res.active_hours) : Res.active_hours[i] = HourOfWeek % 24
        /\ Res.day_index = HourOfWeek \div 24
        /\ Res.hour_of_day = HourOfWeek % 24

C10_Witness ==
    /\ Called /\ Res.passed /\ ~DaysOpen /\ ~HoursOpen
    /\ Res.active_days = <<2, 0>> /\ Res.day_index = 0
    /\ Res.active_hours = <<9>>

====
